---- MODULE Spec2Model ----
(***************************************************************************)
(* NetFlow Template Inspector (scripts/inspect_netflow_templates.py).      *)
(*                                                                         *)
(* The decoder is modelled as a step machine over the byte buffer: one     *)
(* step per group of source lines that touches the shared tables at most   *)
(* once.  Spec runs a whole process_packet call per action; SigSpec runs   *)
(* it statement by statement, with SIGINT and SIGALRM delivered between    *)
(* statements.                                                             *)
(***************************************************************************)
EXTENDS Integers, Sequences, FiniteSets, TLC

VARIABLES template_stats, field_type_stats, decoded, pc, frame, npkts, pkt,
          report, calls, alarm, handler, sigint

vars == <<template_stats, field_type_stats, decoded, pc, frame, npkts, pkt,
          report, calls, alarm, handler, sigint>>

(***************************************************************************)
(* Bounds of the model.                                                    *)
(***************************************************************************)
MaxPackets == 2
MaxSigPackets == 1
MaxBufPackets == 1
MaxRecords == 2
MaxFields == 2

(***************************************************************************)
(* Program constants.                                                      *)
(***************************************************************************)
\* sorted_templates[:10]
TopN == 10

\* sorted_field_types[:20]
TopFieldTypes == 20

(***************************************************************************)
(* Python values.                                                          *)
(***************************************************************************)
\* None is the empty tuple, an int n is <<n>>: `enterprise_number = None`.
None == <<>>

\* Truth value of `if enterprise_number:` : None and 0 are both false.
Truthy(e) == e # None /\ e[1] # 0

Min(a, b) == IF a < b THEN a ELSE b

\* data[a:b] with Python's clamping of the bounds (offsets are 0-based).
Slice(data, a, b) == SubSeq(data, a + 1, Min(b, Len(data)))

\* struct.unpack('>H', ...) and struct.unpack('>I', ...) at a 0-based offset.
BE16(data, off) == data[off + 1] * 256 + data[off + 2]

\* The program only compares a 32-bit value with others and with 0.  TLC's
\* integers end at 2^31 - 1, so a value v >= 2^31 is written v - 2^32: equal
\* values stay equal, distinct ones distinct, and 0 is still the only 0.
BE32(data, off) ==
    LET b1 == IF data[off + 1] >= 128 THEN data[off + 1] - 256
              ELSE data[off + 1]
    IN ((b1 * 256 + data[off + 2]) * 256 + data[off + 3]) * 256
         + data[off + 4]

\* bool(field_type & 0x8000) for a 16-bit field_type.
EnterpriseBit(field_type) == (field_type \div 32768) % 2 = 1

(***************************************************************************)
(* The wire format, as an exporter writes it (big-endian throughout).      *)
(***************************************************************************)
U16(v) == <<(v \div 256) % 256, v % 256>>

U32(v) == <<(v \div 16777216) % 256, (v \div 65536) % 256,
            (v \div 256) % 256, v % 256>>

EncField(fs) ==
    U16(fs.type) \o U16(fs.length)
      \o (IF fs.enterprise = None THEN <<>> ELSE U32(fs.enterprise[1]))

RECURSIVE EncFields(_)
EncFields(fields) ==
    IF fields = <<>> THEN <<>>
    ELSE EncField(Head(fields)) \o EncFields(Tail(fields))

EncRecord(r) ==
    U16(r.template_id) \o U16(r.field_count) \o EncFields(r.fields)

RECURSIVE EncRecords(_)
EncRecords(rs) ==
    IF rs = <<>> THEN <<>>
    ELSE EncRecord(Head(rs)) \o EncRecords(Tail(rs))

EncSet(set_id, payload) == U16(set_id) \o U16(Len(payload) + 4) \o payload

\* A message header that declares `length`, followed by the Sets.
EncMessage(version, length, obs_domain, sets) ==
    U16(version) \o U16(length) \o U32(1700000000) \o U32(1)
      \o U32(obs_domain) \o sets

(***************************************************************************)
(* The datagrams the packet source delivers.                               *)
(***************************************************************************)
\* (host, port) as recvfrom returns it; a host is the rank of its address
\* string in string order.
Addr1 == <<1, 4739>>
Addr2 == <<2, 4739>>

FieldPool ==
    << [type |-> 5,     length |-> 50,    enterprise |-> None],
       [type |-> 32773, length |-> 65535, enterprise |-> <<12345>>],
       [type |-> 32773, length |-> 1001,  enterprise |-> <<0>>],
       [type |-> 8,     length |-> 1000,  enterprise |-> None] >>

\* Field j of record r of a well-formed message.
WireField(r, j) == FieldPool[((2 * r + j) % Len(FieldPool)) + 1]

\* The template records a well-formed message of n records of f fields holds.
WireRecords(n, f) ==
    [r \in 1..n |-> [template_id |-> 255 + r, field_count |-> f,
                     fields |-> [j \in 1..f |-> WireField(r, j)]]]

\* TopN + 1 records without fields, template ids descending.
WideRecords(k) ==
    [r \in 1..k |-> [template_id |-> 256 + k - r, field_count |-> 0,
                     fields |-> <<>>]]

Rec(template_id, fields) ==
    [template_id |-> template_id, field_count |-> Len(fields), fields |-> fields]

TemplateSet(rs) == EncSet(2, EncRecords(rs))

Message(obs_domain, sets) == EncMessage(10, 16 + Len(sets), obs_domain, sets)

\* The last `cut` bytes of the datagram are lost.
Cut(data, cut) == SubSeq(data, 1, Len(data) - cut)

Cuts == {0, 2, 4}

WellFormed ==
    [kind : {"wf"}, n : 1..MaxRecords, f : 0..MaxFields, cut : Cuts,
     addr : {Addr1}, obs_domain : {7}]
    \cup [kind : {"wf"}, n : {1}, f : {1}, cut : {0},
          addr : {Addr1, Addr2}, obs_domain : {7, 8}]

Other ==
    [kind : {"short", "short_ipfix", "v5", "v9", "unknown", "skipset", "wide",
             "shortlen", "samekey", "manytypes"},
     n : {1}, f : {1}, cut : {0}, addr : {Addr1}, obs_domain : {7}]

\* Well-formed messages whose Template Set ends in two bytes of padding.
Padded ==
    [kind : {"padded"}, n : 1..MaxRecords, f : {MaxFields}, cut : {0},
     addr : {Addr1}, obs_domain : {7}]

\* The datagram ends 7, 6, 5 or 4 bytes into an enterprise specifier.
EntTruncs ==
    [kind : {"enttrunc"}, n : {1}, f : {1}, cut : 1..4, addr : {Addr1},
     obs_domain : {7}]

\* n is the length the malformed Set header declares.
BadSets ==
    [kind : {"badset"}, n : {0, 2, 3}, f : {1}, cut : {0}, addr : {Addr1},
     obs_domain : {7}]

Packets == WellFormed \cup Padded \cup Other \cup EntTruncs \cup BadSets

\* The same template id twice in one Set.
SameKeyRecords ==
    <<Rec(256, <<FieldPool[1], FieldPool[3]>>), Rec(256, <<FieldPool[2]>>)>>

\* A record that declares three fields, of which the enterprise specifier
\* that is its second is the last thing in the datagram.
EntTruncRecords ==
    <<[template_id |-> 256, field_count |-> 3,
       fields |-> <<FieldPool[1], FieldPool[2]>>]>>

\* One record of TopFieldTypes + 1 specifiers of pairwise different types;
\* only the last of them has a length above 1000.
ManyTypesRecords ==
    <<Rec(300, [j \in 1..TopFieldTypes + 1 |->
                  [type |-> 100 + j,
                   length |-> IF j = TopFieldTypes + 1 THEN 1001 ELSE 4,
                   enterprise |-> None]])>>

\* A Template Set header that declares a length below the 4 of a header.
BadSetHeader(set_length) == U16(2) \o U16(set_length)

\* The record before the malformed Set header, and the record after it.
BeforeBadSet == <<Rec(256, <<FieldPool[1]>>)>>

AfterBadSet == <<Rec(257, <<FieldPool[2]>>)>>

Bytes(d) ==
    CASE d.kind = "wf" ->
           Cut(Message(d.obs_domain, TemplateSet(WireRecords(d.n, d.f))), d.cut)
      [] d.kind = "short" -> <<0, 10, 0>>
      [] d.kind = "short_ipfix" ->
           SubSeq(Message(7, TemplateSet(WireRecords(1, 1))), 1, 10)
      [] d.kind = "v5" ->
           EncMessage(5, 28, 7, TemplateSet(WireRecords(1, 1)))
      [] d.kind = "v9" ->
           EncMessage(9, 28, 7, TemplateSet(WireRecords(1, 1)))
      [] d.kind = "unknown" ->
           EncMessage(7, 28, 7, TemplateSet(WireRecords(1, 1)))
      [] d.kind = "badset" ->
           Message(7, TemplateSet(BeforeBadSet) \o BadSetHeader(d.n)
                        \o TemplateSet(AfterBadSet))
      [] d.kind = "skipset" ->
           Message(7, EncSet(3, <<1, 0, 0, 1>>) \o EncSet(256, <<9, 9, 9, 9>>)
                        \o EncSet(1, <<>>)
                        \o TemplateSet(<<Rec(257, <<FieldPool[2]>>)>>))
      [] d.kind = "wide" -> Message(7, TemplateSet(WideRecords(TopN + 1)))
      [] d.kind = "shortlen" ->
           EncMessage(10, 28, 7, TemplateSet(<<Rec(256, <<FieldPool[4]>>)>>)
                                   \o TemplateSet(<<Rec(257, <<FieldPool[1]>>)>>))
      [] d.kind = "samekey" -> Message(7, TemplateSet(SameKeyRecords))
      [] d.kind = "manytypes" -> Message(7, TemplateSet(ManyTypesRecords))
      [] d.kind = "enttrunc" ->
           Cut(Message(7, TemplateSet(EntTruncRecords)), d.cut)
      [] d.kind = "padded" ->
           Message(d.obs_domain,
                   EncSet(2, EncRecords(WireRecords(d.n, d.f)) \o <<0, 0>>))

(***************************************************************************)
(* The two tables: Python dicts, which keep their keys in insertion order. *)
(***************************************************************************)
Keys(table) == {table[i].key : i \in 1..Len(table)}

\* The position of key k in the table (k is in the table).
Index(table, k) == CHOOSE i \in 1..Len(table) : table[i].key = k

Get(table, k) == table[Index(table, k)]

(***************************************************************************)
(* The decoder.  m is the machine: the tables, the position pc and the     *)
(* locals l of process_packet and of the calls below it.                   *)
(***************************************************************************)
NoFrame ==
    [data |-> <<>>, addr |-> <<>>, length |-> 0, obs_domain |-> 0, offset |-> 0,
     set_id |-> 0, set_length |-> 0, set_data |-> <<>>, tpl_offset |-> 0,
     template_id |-> 0, field_count |-> 0, key |-> <<>>, field_offset |-> 0,
     fields |-> <<>>, i |-> 0, field_type |-> 0, field_length |-> 0,
     enterprise_number |-> None]

\* process_packet returns to the receive loop.
Return(m) == [m EXCEPT !.pc = "recvfrom", !.l = NoFrame]

\* struct.unpack raises struct.error unless data[a:b] has all its b - a bytes.
Short(data, a, b) == Len(Slice(data, a, b)) # b - a

\* An exception other than KeyboardInterrupt leaves process_packet and the
\* receive loop: the process ends with a traceback.
Raise(m) == [m EXCEPT !.pc = "error", !.l = NoFrame]

IsIPFIX_legacy(version) == version \in {9, 10}

\* if version == 10
IsIPFIX(version) == version = 10

MalformedSet_two(set_length) == set_length < 2

\* if set_length < 4: break
MalformedSet(set_length) == set_length < 4

EnterpriseComplete_four(field_type, field_offset, len) ==
    EnterpriseBit(field_type) /\ field_offset + 4 <= len

\* The enterprise number follows the specifier at field_offset.
EnterpriseComplete(field_type, field_offset, len) ==
    EnterpriseBit(field_type) /\ field_offset + 8 <= len

NextFieldOffset_four(field_type, field_offset, len) == field_offset + 4

NextFieldOffset_eight(field_type, field_offset, len) ==
    IF EnterpriseBit(field_type) THEN field_offset + 8 ELSE field_offset + 4

\* field_offset += 8 with the enterprise number read, += 4 otherwise.
NextFieldOffset(field_type, field_offset, len) ==
    IF EnterpriseComplete(field_type, field_offset, len)
    THEN field_offset + 8
    ELSE field_offset + 4

process_packet(m) ==
    IF Len(m.l.data) < 4 THEN Return(m)
    ELSE IF Short(m.l.data, 0, 2) THEN Raise(m)
    ELSE IF IsIPFIX(BE16(m.l.data, 0))
         THEN [m EXCEPT !.pc = "process_ipfix_packet"]
         ELSE Return(m)

process_ipfix_packet(m) ==
    IF Len(m.l.data) < 16 THEN Return(m)
    ELSE IF Short(m.l.data, 0, 16) THEN Raise(m)
    ELSE [m EXCEPT !.l.length = BE16(m.l.data, 2),
                   !.l.obs_domain = BE32(m.l.data, 12),
                   !.l.offset = 16,
                   !.pc = "L71"]

\* The Set loop: one Set header, and the dispatch on its id.
IsTemplateSet_options(set_id) == set_id \in {2, 3}

\* if set_id == 2; the elif branches for 3 and for >= 256 only print.
IsTemplateSet(set_id) == set_id = 2

ParseSets(m) ==
    LET l == m.l IN
    IF l.offset + 4 <= Len(l.data) /\ l.offset < l.length
    THEN IF Short(l.data, l.offset, l.offset + 4) THEN Raise(m) ELSE
         LET set_id == BE16(l.data, l.offset)
             set_length == BE16(l.data, l.offset + 2)
         IN IF MalformedSet(set_length) THEN Return(m)
            ELSE IF IsTemplateSet(set_id)
            THEN [m EXCEPT !.l.set_id = set_id,
                           !.l.set_length = set_length,
                           !.l.set_data = Slice(l.data, l.offset + 4,
                                                l.offset + set_length),
                           !.l.tpl_offset = 0,
                           !.pc = "L91"]
            ELSE [m EXCEPT !.l.set_id = set_id,
                           !.l.set_length = set_length,
                           !.l.offset = l.offset + set_length]
    ELSE Return(m)

\* analyze_template_set, loop head: the record header and the lazily created
\* TemplateStats entry; at the end of the Set, back to the Set loop.
TemplateHeader(m) ==
    LET l == m.l IN
    IF l.tpl_offset + 4 <= Len(l.set_data)
    THEN IF Short(l.set_data, l.tpl_offset, l.tpl_offset + 4) THEN Raise(m) ELSE
         LET template_id == BE16(l.set_data, l.tpl_offset)
             field_count == BE16(l.set_data, l.tpl_offset + 2)
             key == <<l.addr, l.obs_domain, template_id>>
         IN [m EXCEPT !.l.template_id = template_id,
                      !.l.field_count = field_count,
                      !.l.key = key,
                      !.template_stats =
                          IF key \in Keys(@) THEN @
                          ELSE Append(@, [key |-> key, count |-> 0,
                                          field_count |-> field_count,
                                          fields |-> <<>>]),
                      !.pc = "L104"]
    ELSE [m EXCEPT !.l.offset = l.offset + l.set_length, !.pc = "L71"]

TemplateCount_once(m) ==
    [m EXCEPT !.template_stats[Index(m.template_stats, m.l.key)].count = 1,
              !.l.field_offset = m.l.tpl_offset + 4,
              !.l.fields = <<>>,
              !.l.i = 0,
              !.pc = "L110"]

\* self.template_stats[key]['count'] += 1, and the start of the field loop.
TemplateCount(m) ==
    [m EXCEPT !.template_stats[Index(m.template_stats, m.l.key)].count = @ + 1,
              !.l.field_offset = m.l.tpl_offset + 4,
              !.l.fields = <<>>,
              !.l.i = 0,
              !.pc = "L110"]

\* One turn of `for i in range(field_count)`: the field specifier and the
\* lazily created FieldTypeStats entry.
FieldSpecifier(m) ==
    LET l == m.l IN
    IF l.i < l.field_count /\ l.field_offset + 4 <= Len(l.set_data)
    THEN IF Short(l.set_data, l.field_offset, l.field_offset + 4) THEN Raise(m)
         ELSE
         LET field_type == BE16(l.set_data, l.field_offset)
             field_length == BE16(l.set_data, l.field_offset + 2)
             complete == EnterpriseComplete(field_type, l.field_offset,
                                            Len(l.set_data))
             enterprise_number ==
                 IF complete THEN <<BE32(l.set_data, l.field_offset + 4)>>
                 ELSE None
             field_info == [type |-> field_type, length |-> field_length,
                            enterprise |-> enterprise_number,
                            enterprise_bit |-> EnterpriseBit(field_type)]
         IN IF complete /\ Short(l.set_data, l.field_offset + 4,
                                  l.field_offset + 8)
            THEN Raise(m) ELSE
            [m EXCEPT !.l.field_type = field_type,
                      !.l.field_length = field_length,
                      !.l.enterprise_number = enterprise_number,
                      !.l.field_offset =
                          NextFieldOffset(field_type, @, Len(l.set_data)),
                      !.l.fields = Append(@, field_info),
                      !.field_type_stats =
                          IF field_type \in Keys(@) THEN @
                          ELSE Append(@, [key |-> field_type, count |-> 0,
                                          lengths |-> <<>>,
                                          enterprise_count |-> 0]),
                      !.pc = "L146"]
    ELSE [m EXCEPT !.pc = "L162"]

FieldCount_once(m) ==
    [m EXCEPT !.field_type_stats[Index(m.field_type_stats, m.l.field_type)].count
                  = 1,
              !.pc = "L147"]

\* self.field_type_stats[field_type]['count'] += 1
FieldCount(m) ==
    [m EXCEPT !.field_type_stats[Index(m.field_type_stats, m.l.field_type)].count
                  = @ + 1,
              !.pc = "L147"]

FieldLength(m) ==
    [m EXCEPT !.field_type_stats[Index(m.field_type_stats, m.l.field_type)].lengths
                  = Append(@, m.l.field_length),
              !.pc = "L148"]

FieldEnterprise(m) ==
    [m EXCEPT !.field_type_stats[Index(m.field_type_stats, m.l.field_type)]
                  .enterprise_count
                  = IF Truthy(m.l.enterprise_number) THEN @ + 1 ELSE @,
              !.l.i = @ + 1,
              !.pc = "L110"]

\* The record is done: its field list is stored and the cursor moves on.
\* decoded is the history of the template records the decoder has yielded.
StoreFields(m) ==
    [m EXCEPT !.template_stats[Index(m.template_stats, m.l.key)].fields
                  = m.l.fields,
              !.decoded = Append(@, [pkt |-> m.npkts, key |-> m.l.key,
                                     field_count |-> m.l.field_count,
                                     fields |-> m.l.fields,
                                     set_at |-> m.l.offset,
                                     at |-> m.l.tpl_offset,
                                     end |-> m.l.field_offset]),
              !.l.tpl_offset = m.l.field_offset,
              !.pc = "L91"]

Step(m) ==
    CASE m.pc = "process_packet" -> process_packet(m)
      [] m.pc = "process_ipfix_packet" -> process_ipfix_packet(m)
      [] m.pc = "L71" -> ParseSets(m)
      [] m.pc = "L91" -> TemplateHeader(m)
      [] m.pc = "L104" -> TemplateCount(m)
      [] m.pc = "L110" -> FieldSpecifier(m)
      [] m.pc = "L146" -> FieldCount(m)
      [] m.pc = "L147" -> FieldLength(m)
      [] m.pc = "L148" -> FieldEnterprise(m)
      [] m.pc = "L162" -> StoreFields(m)

\* A whole call: steps until process_packet has returned or raised.
RECURSIVE Run(_)
Run(m) == IF m.pc \in {"recvfrom", "error"} THEN m ELSE Run(Step(m))

Processing ==
    {"process_packet", "process_ipfix_packet", "L71", "L91", "L104", "L110",
     "L146", "L147", "L148", "L162"}

Machine ==
    [pc |-> pc, template_stats |-> template_stats,
     field_type_stats |-> field_type_stats, decoded |-> decoded,
     npkts |-> npkts, l |-> frame]

\* recvfrom has returned datagram d: the machine at the call of process_packet.
Received(d) ==
    [Machine EXCEPT !.pc = "process_packet",
                    !.npkts = npkts + 1,
                    !.l = [NoFrame EXCEPT !.data = Bytes(d), !.addr = d.addr]]

(***************************************************************************)
(* The report.                                                             *)
(***************************************************************************)
RECURSIVE InsertByCount_after(_, _)
InsertByCount_after(e, s) ==
    IF s = <<>> THEN <<e>>
    ELSE IF Head(s).count < e.count THEN <<e>> \o s
         ELSE <<Head(s)>> \o InsertByCount_after(e, Tail(s))

\* s with e put before the first entry whose count is at most e's count.
RECURSIVE InsertByCount(_, _)
InsertByCount(e, s) ==
    IF s = <<>> THEN <<e>>
    ELSE IF Head(s).count <= e.count THEN <<e>> \o s
         ELSE <<Head(s)>> \o InsertByCount(e, Tail(s))

\* sorted(table.items(), key=lambda x: x[1]['count'], reverse=True): the sort
\* is stable, entries of equal count keep the order the dict holds them in.
RECURSIVE SortedByCount(_)
SortedByCount(table) ==
    IF table = <<>> THEN <<>>
    ELSE InsertByCount(Head(table), SortedByCount(Tail(table)))

\* s[:n]
Take(s, n) == SubSeq(s, 1, Min(n, Len(s)))

\* max(lengths) of a non-empty list, and lengths.count(v).
Max(lengths) ==
    CHOOSE v \in {lengths[j] : j \in 1..Len(lengths)} :
        \A j \in 1..Len(lengths) : lengths[j] <= v

Count(lengths, v) == Cardinality({j \in 1..Len(lengths) : lengths[j] = v})

Problematic_from(lengths) ==
    (\E j \in 1..Len(lengths) : lengths[j] = 65535) \/ Max(lengths) >= 1000

\* if 65535 in lengths or max(lengths) > 1000
Problematic(lengths) ==
    (\E j \in 1..Len(lengths) : lengths[j] = 65535) \/ Max(lengths) > 1000

\* The entries before the first one without lengths, on which max() raises.
RECURSIVE BeforeEmpty(_)
BeforeEmpty(table) ==
    IF table = <<>> \/ Head(table).lengths = <<>> THEN <<>>
    ELSE <<Head(table)>> \o BeforeEmpty(Tail(table))

\* The last loop of print_analysis, over all of sorted_field_types.
ProblematicTypes(sorted_field_types) ==
    LET flagged == SelectSeq(BeforeEmpty(sorted_field_types),
                             LAMBDA e : Problematic(e.lengths))
    IN [i \in 1..Len(flagged) |->
          [type |-> flagged[i].key,
           max_length |-> Max(flagged[i].lengths),
           count_65535 |-> Count(flagged[i].lengths, 65535)]]

\* print_analysis: what it prints, or the exception it dies of.
print_analysis(ts, fts) ==
    LET sorted_templates == SortedByCount(ts)
        sorted_field_types == SortedByCount(fts)
        top == Take(sorted_field_types, TopFieldTypes)
        died == \E i \in 1..Len(top) :
                    Len(top[i].lengths) = 0 \/ top[i].count = 0
    IN [total |-> Len(ts),
        templates |-> [i \in 1..Len(Take(sorted_templates, TopN)) |->
                         [key |-> sorted_templates[i].key,
                          count |-> sorted_templates[i].count]],
        field_types |-> IF died THEN <<>>
                        ELSE [i \in 1..Len(top) |->
                                [type |-> top[i].key, count |-> top[i].count]],
        problematic |-> IF died THEN <<>>
                        ELSE ProblematicTypes(sorted_field_types),
        error |-> IF \E i \in 1..Len(top) :
                        Len(top[i].lengths) = 0 \/ top[i].count = 0
                  THEN "ZeroDivisionError"
                  ELSE IF \E i \in 1..Len(sorted_field_types) :
                             Len(sorted_field_types[i].lengths) = 0
                       THEN "ValueError"
                       ELSE "none"]

NoReport ==
    [total |-> 0, templates |-> <<>>, field_types |-> <<>>,
     problematic |-> <<>>, error |-> "not run"]

NoPacket == [kind |-> "none", n |-> 0, f |-> 0, cut |-> 0, addr |-> <<>>,
             obs_domain |-> 0]

(***************************************************************************)
(* Spec: the receive loop, one whole packet per step, stopped by Ctrl-C    *)
(* while it waits in recvfrom.                                             *)
(***************************************************************************)
Init ==
    /\ template_stats = <<>>
    /\ field_type_stats = <<>>
    /\ decoded = <<>>
    /\ pc = "recvfrom"
    /\ frame = NoFrame
    /\ npkts = 0
    /\ pkt = NoPacket
    /\ report = NoReport
    /\ calls = 0
    /\ alarm = "off"
    /\ handler = "idle"
    /\ sigint = FALSE

\* The machine becomes the state of the program.
Becomes(m) ==
    /\ pc' = m.pc
    /\ template_stats' = m.template_stats
    /\ field_type_stats' = m.field_type_stats
    /\ decoded' = m.decoded
    /\ npkts' = m.npkts
    /\ frame' = m.l

\* data, addr = self.sock.recvfrom(65535); self.process_packet(data, addr)
Receive ==
    /\ pc = "recvfrom"
    /\ npkts < MaxPackets
    /\ \E d \in Packets :
          /\ Becomes(Run(Received(d)))
          /\ pkt' = d
    /\ UNCHANGED <<report, calls, alarm, handler, sigint>>

\* except KeyboardInterrupt: self.print_analysis(); finally: close.
Interrupt ==
    /\ pc = "recvfrom"
    /\ sigint' = TRUE
    /\ report' = print_analysis(template_stats, field_type_stats)
    /\ calls' = calls + 1
    /\ pc' = "exit"
    /\ UNCHANGED <<template_stats, field_type_stats, decoded, frame, npkts,
                   pkt, alarm, handler>>

Next == Receive \/ Interrupt

Spec == Init /\ [][Next]_vars

TypeOK ==
    /\ pc \in Processing \cup {"recvfrom", "L37", "L39", "exit", "error"}
    /\ npkts \in 0..MaxPackets + 1
    /\ calls \in 0..3

(***************************************************************************)
(* SigSpec: the receive loop statement by statement.  The interpreter runs *)
(* a signal handler between any two statements of the main thread, and     *)
(* between any two statements of a handler that is already running:        *)
(* SIGALRM runs signal_handler (when --duration is given), SIGINT raises   *)
(* KeyboardInterrupt at the statement it interrupts.                       *)
(***************************************************************************)
\* The statements inside `try:` of start_listening.
TryBlock == Processing \cup {"recvfrom"}

SigInit ==
    /\ template_stats = <<>>
    /\ field_type_stats = <<>>
    /\ decoded = <<>>
    /\ pc = "recvfrom"
    /\ frame = NoFrame
    /\ npkts = 0
    /\ pkt = NoPacket
    /\ report = NoReport
    /\ calls = 0
    /\ alarm \in {"off", "armed"}
    /\ handler = "idle"
    /\ sigint = FALSE

\* data, addr = self.sock.recvfrom(65535)
SigReceive ==
    /\ pc = "recvfrom"
    /\ handler = "idle"
    /\ npkts < MaxSigPackets
    /\ \E d \in Packets :
          /\ Becomes(Received(d))
          /\ pkt' = d
    /\ UNCHANGED <<report, calls, alarm, handler, sigint>>

\* The next statement of process_packet and of the calls below it.
SigStep ==
    /\ pc \in Processing
    /\ handler = "idle"
    /\ Becomes(Step(Machine))
    /\ UNCHANGED <<pkt, report, calls, alarm, handler, sigint>>

\* SIGINT: KeyboardInterrupt is raised in the running statement, be it of the
\* main thread or of signal_handler, and unwinds to the frame of
\* start_listening: inside `try:` the except clause calls print_analysis,
\* past it the exception ends the process.
KeyboardInterrupt ==
    /\ ~sigint
    /\ pc # "exit"
    /\ sigint' = TRUE
    /\ handler' = "idle"
    /\ frame' = NoFrame
    /\ IF pc \in TryBlock
       THEN /\ pc' = "L37"
            /\ calls' = calls + 1
            /\ report' = print_analysis(template_stats, field_type_stats)
       ELSE /\ pc' = "exit"
            /\ UNCHANGED <<calls, report>>
    /\ UNCHANGED <<template_stats, field_type_stats, decoded, npkts, pkt,
                   alarm>>

\* SIGALRM after args.duration seconds: signal_handler calls print_analysis
\* on top of whatever the main thread is doing.
Alarm ==
    /\ alarm = "armed"
    /\ pc # "exit"
    /\ handler = "idle"
    /\ alarm' = "fired"
    /\ handler' = "L239"
    /\ calls' = calls + 1
    /\ report' = print_analysis(template_stats, field_type_stats)
    /\ UNCHANGED <<template_stats, field_type_stats, decoded, pc, frame,
                   npkts, pkt, sigint>>

\* print_analysis returns to signal_handler and sys.exit(0) raises
\* SystemExit, or print_analysis raises: either way the exception unwinds the
\* main thread through `finally:`.
HandlerExit ==
    /\ handler = "L239"
    /\ handler' = "idle"
    /\ frame' = NoFrame
    /\ pc' = IF pc = "L39" THEN "exit" ELSE "L39"
    /\ UNCHANGED <<template_stats, field_type_stats, decoded, npkts, pkt,
                   report, calls, alarm, sigint>>

\* print_analysis of the except clause is over.
ExceptDone ==
    /\ pc = "L37"
    /\ handler = "idle"
    /\ pc' = "L39"
    /\ UNCHANGED <<template_stats, field_type_stats, decoded, frame, npkts,
                   pkt, report, calls, alarm, handler, sigint>>

\* finally: self.sock.close(), and the process ends.
Finally ==
    /\ pc = "L39"
    /\ handler = "idle"
    /\ pc' = "exit"
    /\ UNCHANGED <<template_stats, field_type_stats, decoded, frame, npkts,
                   pkt, report, calls, alarm, handler, sigint>>

SigNext ==
    \/ SigReceive
    \/ SigStep
    \/ KeyboardInterrupt
    \/ Alarm
    \/ HandlerExit
    \/ ExceptDone
    \/ Finally

SigSpec == SigInit /\ [][SigNext]_vars

(***************************************************************************)
(* BufSpec: the receive loop statement by statement, without signals, on   *)
(* arbitrary buffers: every prefix of a message and every message with one *)
(* 16-bit word of it overwritten.                                          *)
(***************************************************************************)
Prefixes(data) == {SubSeq(data, 1, k) : k \in 0..Len(data)}

\* data with the 16-bit word at offset off overwritten by v.
Patch(data, off, v) ==
    [data EXCEPT ![off + 1] = v \div 256, ![off + 2] = v % 256]

PatchValues == {0, 3, 5, 65535}

Patches(data) ==
    {Patch(data, 2 * h, v) : h \in 0..(Len(data) \div 2) - 1, v \in PatchValues}

BaseMessages ==
    {Message(7, TemplateSet(WireRecords(2, 2))),
     Bytes([kind |-> "skipset", n |-> 1, f |-> 1, cut |-> 0, addr |-> Addr1,
            obs_domain |-> 7])}

Buffers ==
    UNION {Prefixes(b) : b \in BaseMessages}
      \cup UNION {Patches(b) : b \in BaseMessages}

\* data, addr = self.sock.recvfrom(65535), for any buffer.
BufReceive ==
    /\ pc = "recvfrom"
    /\ npkts < MaxBufPackets
    /\ \E b \in Buffers :
          Becomes([Machine EXCEPT !.pc = "process_packet",
                                  !.npkts = npkts + 1,
                                  !.l = [NoFrame EXCEPT !.data = b,
                                                        !.addr = Addr1]])
    /\ UNCHANGED <<pkt, report, calls, alarm, handler, sigint>>

BufNext == BufReceive \/ SigStep

BufSpec == Init /\ [][BufNext]_vars

\* The interpreter keeps running the main thread.
BufFairSpec == BufSpec /\ WF_vars(SigStep)

(***************************************************************************)
(* What the claims speak of.                                               *)
(***************************************************************************)
\* The records of the history with key k, oldest first.
DecodedWith(k) == SelectSeq(decoded, LAMBDA r : r.key = k)

\* The records decoded from the packet received last.
DecodedNow == SelectSeq(decoded, LAMBDA r : r.pkt = npkts)

\* The template records the exporter wrote into datagram d, before any cut.
Wire(d) ==
    CASE d.kind \in {"wf", "padded"} -> WireRecords(d.n, d.f)
      [] d.kind = "samekey" -> SameKeyRecords
      [] d.kind = "enttrunc" -> EntTruncRecords
      [] d.kind = "wide" -> WideRecords(TopN + 1)
      [] d.kind = "manytypes" -> ManyTypesRecords
      [] OTHER -> <<>>

\* A decoded field list is the wire list fs: type, length and enterprise
\* number of every specifier, in wire order.
SameFields(fields, fs) ==
    /\ Len(fields) = Len(fs)
    /\ \A j \in 1..Len(fs) :
          /\ fields[j].type = fs[j].type
          /\ fields[j].length = fs[j].length
          /\ fields[j].enterprise = fs[j].enterprise

\* C1: at every packet boundary the key set of template_stats is the set of
\* keys decoded so far, each entry's count is the number of records decoded
\* with its key, and its field list is the list of the most recent of them.
C1_CountAndLastFields ==
    /\ Keys(template_stats) = {decoded[i].key : i \in 1..Len(decoded)}
    /\ \A i \in 1..Len(template_stats) :
          LET e == template_stats[i]
              d == DecodedWith(e.key)
          IN /\ e.count = Len(d)
             /\ e.fields = d[Len(d)].fields

\* A key announced by two packets, with different field lists.
C1_Witness ==
    \E i \in 1..Len(template_stats) :
        LET e == template_stats[i]
            d == DecodedWith(e.key)
        IN /\ e.count = 2
           /\ Len(d) = 2
           /\ d[1].pkt # d[2].pkt
           /\ d[1].fields # d[2].fields
           /\ d[1].fields # <<>>
           /\ e.fields = d[2].fields

\* C2: at every packet boundary the stored declared field count of every
\* entry is the field count the most recent record with its key declared.
C2_LastDeclaredCount ==
    \A i \in 1..Len(template_stats) :
        LET e == template_stats[i]
            d == DecodedWith(e.key)
        IN e.field_count = d[Len(d)].field_count

\* C3: a well-formed, uncut message of n records of f fields (its Set padded
\* or not) yields exactly its n records, each with its f specifiers in wire
\* order, stored under its key; record k starts where record k-1 ended, the
\* first at offset 0.
C3_WellFormedDecodes ==
    (pkt.kind \in {"wf", "padded"} /\ pkt.cut = 0) =>
        LET wire == Wire(pkt)
            recs == DecodedNow
        IN /\ Len(recs) = pkt.n
           /\ \A k \in 1..pkt.n :
                 LET key == <<pkt.addr, pkt.obs_domain, wire[k].template_id>>
                 IN /\ recs[k].key = key
                    /\ Len(recs[k].fields) = pkt.f
                    /\ SameFields(recs[k].fields, wire[k].fields)
                    /\ recs[k].at = Len(EncRecords(SubSeq(wire, 1, k - 1)))
                    /\ recs[k].end = Len(EncRecords(SubSeq(wire, 1, k)))
                    /\ key \in Keys(template_stats)
                    /\ Get(template_stats, key).fields = recs[k].fields

\* A well-formed message of two records of two fields, with enterprise
\* specifiers, has been decoded.
C3_Witness ==
    /\ pkt.kind = "wf" /\ pkt.cut = 0 /\ pkt.n >= 2 /\ pkt.f >= 2
    /\ Len(DecodedNow) = pkt.n
    /\ \E k \in 1..pkt.n : \E j \in 1..pkt.f :
          DecodedNow[k].fields[j].enterprise # None

\* Every specifier decoded so far, oldest first.
RECURSIVE AllFields(_)
AllFields(recs) ==
    IF recs = <<>> THEN <<>>
    ELSE Head(recs).fields \o AllFields(Tail(recs))

FieldsOfType(t) == SelectSeq(AllFields(decoded), LAMBDA fi : fi.type = t)

\* C6: every FieldTypeStats entry counts the specifiers decoded with its type
\* code, holds their lengths in order, and its enterprise count is the number
\* of them that carried an enterprise number on the wire, whatever its value.
C6_EnterpriseCounted ==
    \A i \in 1..Len(field_type_stats) :
        LET e == field_type_stats[i]
            obs == FieldsOfType(e.key)
        IN /\ e.count = Len(obs)
           /\ e.lengths = [j \in 1..Len(obs) |-> obs[j].length]
           /\ e.enterprise_count
                = Len(SelectSeq(obs, LAMBDA fi : fi.enterprise # None))

\* The wire records of d end in an enterprise specifier of which the cut
\* leaves the first 4 bytes (type and length) but not all 8.
EntTruncated(d) ==
    \/ d.kind = "enttrunc"
    \/ /\ d.kind = "wf" /\ d.cut \in {2, 4} /\ d.f >= 1
       /\ WireField(d.n, d.f).enterprise # None

\* C7: when the datagram ends inside the enterprise number of a specifier,
\* that specifier is the last one decoded (without enterprise number), the
\* cursor ends 4 bytes after its start, its record is the last one decoded
\* from the packet, and the list up to and including it is what is stored.
C7_TruncatedEnterprise ==
    EntTruncated(pkt) =>
        LET wire == Wire(pkt)
            n == Len(wire)
            recs == DecodedNow
            w == wire[n]
            t == Len(w.fields)
            before == [w EXCEPT !.fields = SubSeq(w.fields, 1, t - 1)]
        IN /\ Len(recs) = n
           /\ decoded[Len(decoded)] = recs[n]
           /\ Len(recs[n].fields) = t
           /\ SameFields(SubSeq(recs[n].fields, 1, t - 1), before.fields)
           /\ recs[n].fields[t].type = w.fields[t].type
           /\ recs[n].fields[t].length = w.fields[t].length
           /\ recs[n].fields[t].enterprise_bit
           /\ recs[n].fields[t].enterprise = None
           /\ recs[n].end = recs[n].at + Len(EncRecord(before)) + 4
           /\ Get(template_stats, recs[n].key).fields = recs[n].fields

\* A record that declares more fields than were decoded, cut inside the
\* enterprise number of its last decoded specifier.
C7_Witness ==
    /\ EntTruncated(pkt)
    /\ npkts >= 1
    /\ LET r == decoded[Len(decoded)]
       IN /\ r.pkt = npkts
          /\ Len(r.fields) >= 2
          /\ Len(r.fields) < r.field_count
          /\ r.fields[Len(r.fields)].enterprise_bit
          /\ r.fields[Len(r.fields)].enterprise = None

\* C8: of a message with a Set header declaring a length below 4, exactly the
\* Sets before that header are decoded and their updates are in the tables,
\* process_packet has returned, and a well-formed message received next is
\* decoded in full.
C8_BadSetState ==
    pkt.kind = "badset" =>
        LET recs == DecodedNow
            key == <<pkt.addr, pkt.obs_domain, BeforeBadSet[1].template_id>>
        IN /\ Len(recs) = 1
           /\ recs[1].key = key
           /\ SameFields(recs[1].fields, BeforeBadSet[1].fields)
           /\ key \in Keys(template_stats)
           /\ Get(template_stats, key).count = Len(DecodedWith(key))
           /\ Get(template_stats, key).fields = recs[1].fields
           /\ BeforeBadSet[1].fields[1].type \in Keys(field_type_stats)
           /\ Get(field_type_stats, BeforeBadSet[1].fields[1].type).count
                = Len(FieldsOfType(BeforeBadSet[1].fields[1].type))
           /\ pc \in {"recvfrom", "exit"}
           /\ frame = NoFrame

C8_BadSetNext ==
    (pkt.kind = "badset" /\ npkts' = npkts + 1
       /\ pkt'.kind = "wf" /\ pkt'.cut = 0) =>
        /\ Len(decoded') = Len(decoded) + pkt'.n
        /\ pc' = "recvfrom"

C8_BadSetTerminates == []C8_BadSetState /\ [][C8_BadSetNext]_vars

\* A malformed Set header came after a decoded Set and before another, and a
\* packet was received after that message.
C8_Witness ==
    /\ npkts = 2
    /\ \E i \in 1..Len(decoded) : decoded[i].pkt = 1
    /\ Len(SelectSeq(decoded, LAMBDA r : r.pkt = 1)) = 1
    /\ pkt.kind = "wf" /\ pkt.cut = 0 /\ pkt.n = 2
    /\ Len(DecodedNow) = 2
    /\ Get(template_stats, <<Addr1, 7, 256>>).count = 2

\* The buffer is discarded or only classified: shorter than 4 bytes, not of
\* version 10, or of version 10 and shorter than 16 bytes.
NotDecoded(data) ==
    \/ Len(data) < 4
    \/ data[1] * 256 + data[2] # 10
    \/ Len(data) < 16

\* C9: a packet that is discarded or only classified changes neither table.
C9_NoMutation ==
    [][(npkts' = npkts + 1 /\ NotDecoded(Bytes(pkt'))) =>
         /\ template_stats' = template_stats
         /\ field_type_stats' = field_type_stats]_vars

\* A NetFlow v9 packet was received while the tables held entries.
C9_Witness ==
    /\ npkts = 2
    /\ pkt.kind = "v9"
    /\ NotDecoded(Bytes(pkt))
    /\ template_stats # <<>>
    /\ field_type_stats # <<>>

\* Keys in their natural order: source address, then domain, then id.
KeyLess(a, b) ==
    \/ a[1][1] < b[1][1]
    \/ a[1][1] = b[1][1] /\ a[1][2] < b[1][2]
    \/ a[1] = b[1] /\ a[2] < b[2]
    \/ a[1] = b[1] /\ a[2] = b[2] /\ a[3] < b[3]

\* C10 as claimed: the report lists at most TopN keys by count descending,
\* keys of equal count in the natural order of the keys.
C10_NaturalTieOrder ==
    pc = "exit" =>
        LET t == report.templates
        IN /\ Len(t) <= TopN
           /\ \A i, j \in 1..Len(t) :
                 i < j => \/ t[i].count > t[j].count
                          \/ /\ t[i].count = t[j].count
                             /\ KeyLess(t[i].key, t[j].key)

\* The report ranks entry a of template_stats before entry b.
Before(a, b) ==
    \/ a.count > b.count
    \/ /\ a.count = b.count
       /\ Index(template_stats, a.key) < Index(template_stats, b.key)

\* C10 as amended: the report lists min(TopN, number of keys) keys with their
\* counts, by count descending, keys of equal count in the order in which
\* they were first observed; every key left out ranks after every key listed.
C10_FirstObservedTieOrder ==
    pc = "exit" =>
        LET t == report.templates
            listed == {t[i].key : i \in 1..Len(t)}
        IN /\ Len(t) = Min(TopN, Len(template_stats))
           /\ report.total = Len(template_stats)
           /\ \A i \in 1..Len(t) :
                 /\ t[i].key \in Keys(template_stats)
                 /\ t[i].count = Get(template_stats, t[i].key).count
           /\ \A i, j \in 1..Len(t) :
                 i < j => Before(Get(template_stats, t[i].key),
                                 Get(template_stats, t[j].key))
           /\ \A k \in 1..Len(template_stats) :
                 template_stats[k].key \notin listed =>
                    \A i \in 1..Len(t) :
                       Before(Get(template_stats, t[i].key), template_stats[k])

\* More than TopN keys, a key seen twice ranked first although observed
\* last of all, and two keys of equal count listed against their natural
\* order.
C10_Witness ==
    /\ pc = "exit"
    /\ Len(template_stats) > TopN
    /\ Len(report.templates) = TopN
    /\ report.templates[1].count = 2
    /\ report.templates[1].key = template_stats[Len(template_stats)].key
    /\ report.templates[2].count = 1
    /\ report.templates[3].count = 1
    /\ KeyLess(report.templates[3].key, report.templates[2].key)

\* print_analysis is running, in the except clause or in signal_handler.
Reporting == pc = "L37" \/ handler = "L239"

\* C4: when the process has exited, print_analysis was called exactly once.
C4_ReportOnce == pc = "exit" => calls = 1

\* A table entry is in the middle of its update: a FieldTypeStats entry
\* without its count or without the length of its last occurrence, or a
\* TemplateStats entry counted more often than field lists were stored.
MidMutation ==
    \/ \E i \in 1..Len(field_type_stats) :
          \/ field_type_stats[i].count = 0
          \/ Len(field_type_stats[i].lengths) # field_type_stats[i].count
    \/ \E i \in 1..Len(template_stats) :
          template_stats[i].count # Len(DecodedWith(template_stats[i].key))

\* C5: whenever print_analysis runs, no table entry is in the middle of its
\* update, and the report does not die of reading one.
C5_ReportNotMidMutation ==
    Reporting => (~MidMutation /\ report.error = "none")

\* C11: a field type is in the report's problematic list exactly when one of
\* its recorded lengths is 65535 or above 1000, whatever its rank; it is listed
\* once, with its largest length and its number of lengths of 65535.
C11_ProblematicTypes ==
    pc = "exit" =>
        LET p == report.problematic
        IN /\ \A i \in 1..Len(field_type_stats) :
                 LET e == field_type_stats[i]
                     js == 1..Len(e.lengths)
                 IN (\E k \in 1..Len(p) : p[k].type = e.key)
                      <=> \E j \in js : e.lengths[j] = 65535
                                          \/ e.lengths[j] > 1000
           /\ \A k \in 1..Len(p) :
                 /\ p[k].type \in Keys(field_type_stats)
                 /\ \A k2 \in 1..Len(p) : p[k2].type = p[k].type => k2 = k
                 /\ LET l == Get(field_type_stats, p[k].type).lengths
                    IN /\ \E j \in 1..Len(l) : l[j] = p[k].max_length
                       /\ \A j \in 1..Len(l) : l[j] <= p[k].max_length
                       /\ p[k].count_65535
                            = Cardinality({j \in 1..Len(l) : l[j] = 65535})

\* More than TopFieldTypes field types; a type outside the top ones is listed
\* for a length of 1001, and a type with a length of exactly 1000 is not.
C11_Witness ==
    /\ pc = "exit"
    /\ Len(field_type_stats) > TopFieldTypes
    /\ Len(report.field_types) = TopFieldTypes
    /\ \E k \in 1..Len(report.problematic) :
          /\ report.problematic[k].max_length = 1001
          /\ report.problematic[k].count_65535 = 0
          /\ \A i \in 1..Len(report.field_types) :
                report.field_types[i].type # report.problematic[k].type
    /\ \E i \in 1..Len(field_type_stats) :
          /\ \E j \in 1..Len(field_type_stats[i].lengths) :
                field_type_stats[i].lengths[j] = 1000
          /\ \A k \in 1..Len(report.problematic) :
                report.problematic[k].type # field_type_stats[i].key

\* C12: no decode error is fatal.  Whatever bytes a datagram holds (any length,
\* any version, truncated or malformed Sets, template records or field
\* specifiers), no statement of the decoder raises: process_packet returns to
\* the receive loop with its frame gone, and the loop is at recvfrom again,
\* ready for the next datagram.
C12_NoFatalDecodeError ==
    /\ pc # "error"
    /\ pc \in Processing \cup {"recvfrom"}
    /\ pc = "recvfrom" => frame = NoFrame
    /\ pc \in Processing => Step(Machine).pc \in Processing \cup {"recvfrom"}

\* process_packet has returned from a buffer that ended inside a template
\* record: a record is stored with fewer specifiers than it declared.
C12_Witness ==
    /\ pc = "recvfrom"
    /\ npkts >= 1
    /\ \E i \in 1..Len(decoded) :
          Len(decoded[i].fields) < decoded[i].field_count

\* The Set loop is at a Set that is not a Template Set and whose declared
\* length is at least 4.
AtOtherSet ==
    /\ pc = "L71"
    /\ handler = "idle"
    /\ frame.offset + 4 <= Len(frame.data)
    /\ frame.offset < frame.length
    /\ BE16(frame.data, frame.offset) # 2
    /\ BE16(frame.data, frame.offset + 2) >= 4

\* The Sets of the message with Set ids 3, 256 and 1 before its Template Set:
\* where that Template Set starts.
SkipSetTemplateAt == 16 + 8 + 8 + 4

\* C13: a Set whose id is not 2 (Options Template Set, Data Set, unrecognized
\* id) is passed in one iteration of the Set loop that changes neither table
\* and decodes no record, and moves the Set cursor by the Set's declared
\* length; the Template Set that follows three such Sets in a message is
\* decoded where it starts and is in the tables once process_packet returns.
C13_OtherSetStep ==
    (AtOtherSet /\ pc' \in Processing \cup {"recvfrom"} /\ handler' = "idle") =>
        /\ template_stats' = template_stats
        /\ field_type_stats' = field_type_stats
        /\ decoded' = decoded
        /\ pc' = "L71"
        /\ frame'.data = frame.data
        /\ frame'.offset = frame.offset + BE16(frame.data, frame.offset + 2)

C13_FollowingTemplateSet ==
    (pkt.kind = "skipset" /\ pc = "recvfrom") =>
        LET recs == DecodedNow
            key == <<pkt.addr, pkt.obs_domain, 257>>
        IN /\ Len(recs) = 1
           /\ recs[1].key = key
           /\ recs[1].set_at = SkipSetTemplateAt
           /\ SameFields(recs[1].fields, <<FieldPool[2]>>)
           /\ key \in Keys(template_stats)
           /\ Get(template_stats, key).count = Len(DecodedWith(key))
           /\ Get(template_stats, key).fields = recs[1].fields
           /\ \A i \in 1..Len(template_stats) :
                 Len(DecodedWith(template_stats[i].key)) >= 1

C13_OtherSetsSkipped ==
    []C13_FollowingTemplateSet /\ [][C13_OtherSetStep]_vars

\* process_packet has returned from the message with the three other Sets, and
\* the record of its Template Set is the one record decoded from it.
C13_Witness ==
    /\ pkt.kind = "skipset"
    /\ pc = "recvfrom"
    /\ npkts >= 1
    /\ Len(DecodedNow) = 1
    /\ DecodedNow[1].set_at = SkipSetTemplateAt
    /\ <<pkt.addr, pkt.obs_domain, 257>> \in Keys(template_stats)

\* C14: at every packet boundary the stored field list of every entry has
\* at most as many specifiers as the entry's stored declared field count, and
\* fewer exactly when the most recent record with the entry's key was
\* truncated, that is, yielded fewer specifiers than it declared.
C14_TruncationObservable ==
    \A i \in 1..Len(template_stats) :
        LET e == template_stats[i]
            d == DecodedWith(e.key)
            last == d[Len(d)]
        IN /\ Len(e.fields) <= e.field_count
           /\ Len(e.fields) < e.field_count
                <=> Len(last.fields) < last.field_count

\* The sum of the counts of the FieldTypeStats entries.
RECURSIVE SumCounts(_)
SumCounts(table) ==
    IF table = <<>> THEN 0 ELSE Head(table).count + SumCounts(Tail(table))

\* C15: between two calls of process_packet every FieldTypeStats entry has as
\* many recorded lengths as its count, a count of at least 1 and an
\* enterprise count between 0 and its count; every TemplateStats entry has a
\* count of at least 1; and the counts of the FieldTypeStats entries add up to
\* the number of field specifiers decoded so far, over all records of all
\* packets.
C15_BoundaryInvariants ==
    pc = "recvfrom" =>
        /\ \A i \in 1..Len(field_type_stats) :
              LET e == field_type_stats[i]
              IN /\ e.count = Len(e.lengths)
                 /\ e.count >= 1
                 /\ 0 <= e.enterprise_count
                 /\ e.enterprise_count <= e.count
        /\ \A i \in 1..Len(template_stats) : template_stats[i].count >= 1
        /\ SumCounts(field_type_stats) = Len(AllFields(decoded))

\* Two packets in, a field type seen more than once with and without a
\* counted enterprise number, and a template announced more than once.
C15_Witness ==
    /\ pc = "recvfrom"
    /\ npkts = 2
    /\ \E i \in 1..Len(field_type_stats) :
          /\ field_type_stats[i].count >= 2
          /\ field_type_stats[i].enterprise_count >= 1
          /\ field_type_stats[i].enterprise_count < field_type_stats[i].count
    /\ \E i \in 1..Len(template_stats) : template_stats[i].count >= 2
    /\ Len(field_type_stats) >= 2
    /\ SumCounts(field_type_stats) >= 3

\* An iteration of the Set loop ends: a Set that is not a Template Set is
\* passed, or analyze_template_set returns.
SetIteration == pc \in {"L71", "L91"} /\ pc' = "L71"

\* An iteration of the template loop ends.
TemplateIteration == pc = "L162" /\ pc' = "L91"

C16_CursorsAdvance ==
    /\ SetIteration =>
          /\ BE16(frame.data, frame.offset + 2) >= 4
          /\ frame'.offset = frame.offset + BE16(frame.data, frame.offset + 2)
          /\ frame'.offset > frame.offset
    /\ TemplateIteration =>
          /\ frame'.tpl_offset >= frame.tpl_offset + 4
          /\ frame'.tpl_offset > frame.tpl_offset
          /\ frame'.offset = frame.offset
    /\ (pc \in Processing /\ pc' \in Processing) =>
          /\ frame'.data = frame.data
          /\ frame'.offset >= frame.offset
          /\ frame'.set_data = frame.set_data
               => frame'.tpl_offset >= frame.tpl_offset

\* C16: processing any datagram terminates.  Every iteration of the Set loop
\* moves the Set cursor by the declared Set length, which is at least 4; every
\* iteration of the template loop moves the template cursor by at least 4,
\* also for a record of 0 fields and for a truncated record; neither cursor
\* ever goes back; and process_packet, once called, returns to the receive
\* loop, whatever lengths and field counts the bytes declare.
C16_Terminates ==
    /\ [][C16_CursorsAdvance]_vars
    /\ (pc \in Processing) ~> (pc = "recvfrom")

\* process_packet has returned from a datagram in which a record declaring 0
\* fields was followed by another record of the same Set, and from one with a
\* truncated record.
C16_Witness ==
    /\ pc = "recvfrom"
    /\ \E i, j \in 1..Len(decoded) :
          /\ decoded[i].field_count = 0
          /\ decoded[i].end = decoded[i].at + 4
          /\ decoded[j].pkt = decoded[i].pkt
          /\ decoded[j].set_at = decoded[i].set_at
          /\ decoded[j].at = decoded[i].end
    /\ \E k \in 1..Len(decoded) :
          /\ Len(decoded[k].fields) < decoded[k].field_count
          /\ decoded[k].end >= decoded[k].at + 4

====
